---- MODULE Spec2Model ----
(***************************************************************************)
(* SignalForge: the DSP building blocks (CircularBuffer, DelayLine), the   *)
(* user-script sandbox (ScriptSandbox), the release script                 *)
(* (scripts/version.js: bumpVersion, generateChangelog, main) and the      *)
(* entry module of the page, each as a state machine with a specification  *)
(* of its own (SpecDelay, SpecSandbox, SpecBump, SpecChangelog,            *)
(* SpecRelease, SpecPage); and the BiquadFilter (SpecBiquad).              *)
(*                                                                         *)
(* The repository holds no graph model, scheduler or graph serializer:     *)
(* nothing of those is modelled here.                                      *)
(***************************************************************************)
EXTENDS Integers, Sequences, FiniteSets, TLC

VARIABLES
    \* ---- CircularBuffer / DelayLine ----
    size,        \* CircularBuffer.size (capacity, fixed at construction)
    buffer,      \* CircularBuffer.buffer : Float32Array(size), index 0..size-1
    writeIndex,  \* CircularBuffer.writeIndex
    dlCall,      \* the last DelayLine.process call: its arguments and result
    \* ---- ScriptSandbox ----
    worker,      \* ScriptSandbox.worker: 0 is null, i the Worker of invocation i
    workers,     \* the Worker object created by each invocation
    timer,       \* the setTimeout timer of each invocation
    promise,     \* the promise returned by each invocation
    url,         \* the blob URL created by each invocation
    posted,      \* whether audioData was posted to the invocation's worker
    code,        \* the script text each invocation was called with
    uncaught,    \* invocations whose timer callback threw into the host
    \* ---- scripts/version.js: bumpVersion on its own ----
    bump,        \* one bumpVersion call: its arguments and, once made, its result
    \* ---- scripts/version.js: generateChangelog on its own ----
    chlog,       \* one generateChangelog call: the file before, and the file after
    \* ---- scripts/version.js: main ----
    argv,        \* process.argv.slice(2)
    git,         \* the repository: what the git commands find, and what they did
    files,       \* package.json's version and CHANGELOG.md
    run,         \* the run of main: where it is, what it did, how it ended
    \* ---- main entry point of the page ----
    readyState,  \* document.readyState
    container,   \* the element with id 'app': in the page, parsed yet, its children
    audioApi,    \* which of window.AudioContext, window.webkitAudioContext exist
    startup,     \* the evaluation of the entry module and what it registered
    app,         \* the signalforge-app element created by init
    \* ---- BiquadFilter ----
    filter,      \* the fields of one BiquadFilter: fs, history, coefficients
    bqCall       \* the last call on it, and the number of process calls so far

dlVars == <<size, buffer, writeIndex, dlCall>>
sbVars == <<worker, workers, timer, promise, url, posted, code, uncaught>>
bvVars == <<bump>>
clVars == <<chlog>>
rlVars == <<argv, git, files, run>>
pgVars == <<readyState, container, audioApi, startup, app>>
bqVars == <<filter, bqCall>>
vars == <<size, buffer, writeIndex, dlCall,
          worker, workers, timer, promise, url, posted, code, uncaught,
          bump, chlog, argv, git, files, run,
          readyState, container, audioApi, startup, app,
          filter, bqCall>>

----------------------------------------------------------------------------
(* Bounds *)

\* largest capacity a delay line is constructed with
MaxSize == 3
\* number of executeUserScript invocations on the one sandbox
MaxInv == 2
\* number of process calls on the one biquad filter
MaxCalls == 4

----------------------------------------------------------------------------
(* Numbers *)

\* the value a read outside the typed array yields
Undefined == "undefined"

Abs(x) == IF x < 0 THEN -x ELSE x

\* 2^24: integers below it are exact in a float32 (24-bit significand)
TwoTo24 == 16777216

\* spacing of float32 values around an integer of magnitude a
RECURSIVE Quantum(_, _)
Quantum(a, q) == IF a < TwoTo24 * q THEN q ELSE Quantum(a, 2 * q)

\* Storing a number in a Float32Array rounds it to the nearest float32,
\* ties to even; on integers:
Fround(x) ==
    LET a  == Abs(x)
        q  == Quantum(a, 1)
        lo == (a \div q) * q
        r  == a - lo
        m  == IF 2 * r < q THEN lo
              ELSE IF 2 * r > q THEN lo + q
              ELSE IF (lo \div q) % 2 = 0 THEN lo ELSE lo + q
    IN  IF x < 0 THEN -m ELSE m

\* JavaScript's % : the remainder takes the sign of the dividend
JsRem(a, b) == IF a >= 0 THEN a % b ELSE -((-a) % b)

\* Math.floor of a delay time given in half samples
Floor(delayTime2) == delayTime2 \div 2

\* input samples: small integers and one integer that is no float32
Samples == {-1, 0, 1, TwoTo24 + 1}

\* delay times handed to DelayLine.process, in half samples
DelayTimes2 == (0 - 2 * MaxSize - 2) .. (4 * MaxSize + 2)

----------------------------------------------------------------------------
(* CircularBuffer *)

\* write(sample): buffer and writeIndex after the call
WriteBuffer(buf, wi, sample) == [buf EXCEPT ![wi] = Fround(sample)]
WriteIndexNext(wi, sz) == (wi + 1) % sz

\* the read index computed without the added size
ReadIndexNoOffset(wi, delay, sz) == JsRem(wi - delay, sz)

\* read(delay) on a buffer with the given write index
ReadIndex(wi, delay, sz) == JsRem(wi - delay + sz, sz)
Read(buf, wi, delay, sz) ==
    LET readIndex == ReadIndex(wi, delay, sz)
    IN  IF readIndex \in 0 .. (sz - 1) THEN buf[readIndex] ELSE Undefined

(* DelayLine *)

NoCall == [called |-> FALSE]

\* new DelayLine(maxDelayInSamples)
InitDelay ==
    /\ size \in 1 .. MaxSize
    /\ buffer = [i \in 0 .. (size - 1) |-> 0]
    /\ writeIndex = 0
    /\ dlCall = NoCall

\* process(input, delayTime): write the input, then read at floor(delayTime)
Process(input, delayTime2) ==
    LET buf == WriteBuffer(buffer, writeIndex, input)
        wi  == WriteIndexNext(writeIndex, size)
    IN  /\ buffer' = buf
        /\ writeIndex' = wi
        /\ dlCall' = [called |-> TRUE, input |-> input, delayTime2 |-> delayTime2,
                      output |-> Read(buf, wi, Floor(delayTime2), size)]
        /\ UNCHANGED size

DelayProcess ==
    /\ \E input \in Samples, delayTime2 \in DelayTimes2 : Process(input, delayTime2)
    /\ UNCHANGED <<sbVars, bvVars, clVars, rlVars, pgVars, bqVars>>

----------------------------------------------------------------------------
(* BiquadFilter *)

\* The arithmetic of the filter is modelled where it is exact: on integers
\* (sums and products of integers are exact in doubles at these magnitudes)
\* and, for setLowpass, at frequency 0, where omega is 0, Math.cos gives 1
\* and Math.sin gives 0, so that every division is exact.
SampleRates == {44100, 48000}
Frequencies == {0}
Qs == {1, 2}
Inputs == {-1, 0, 1}

\* Math.cos and Math.sin at omega = 0
cos_omega == 1
sin_omega == 0

NoBiquadCall == [op |-> "constructor", n |-> 0, input |-> 0, output |-> 0]

\* new BiquadFilter(sampleRate)
BiquadFilter(sampleRate) ==
    [fs |-> sampleRate, x1 |-> 0, x2 |-> 0, y1 |-> 0, y2 |-> 0,
     b0 |-> 1, b1 |-> 0, b2 |-> 0, a1 |-> 0, a2 |-> 0]

InitBiquad ==
    /\ filter \in {BiquadFilter(sampleRate) : sampleRate \in SampleRates}
    /\ bqCall = NoBiquadCall

\* a filter nobody calls, for the behaviours of the other components
InitBiquadIdle ==
    /\ filter = BiquadFilter(48000)
    /\ bqCall = NoBiquadCall

\* setLowpass(frequency, Q) at frequency 0: the five coefficients
setLowpass(f, frequency, Q) ==
    LET alpha == sin_omega \div (2 * Q)
        a0 == 1 + alpha
    IN  [f EXCEPT !.b0 = ((1 - cos_omega) \div 2) \div a0,
                  !.b1 = (1 - cos_omega) \div a0,
                  !.b2 = ((1 - cos_omega) \div 2) \div a0,
                  !.a1 = (0 - 2 * cos_omega) \div a0,
                  !.a2 = (1 - alpha) \div a0]

SetLowpass ==
    /\ \E frequency \in Frequencies, Q \in Qs :
          filter' = setLowpass(filter, frequency, Q)
    /\ bqCall' = [bqCall EXCEPT !.op = "setLowpass"]
    /\ UNCHANGED <<dlVars, sbVars, bvVars, clVars, rlVars, pgVars>>

\* process(input): the output of the difference equation
BiquadOutput(f, input) ==
    f.b0 * input + f.b1 * f.x1 + f.b2 * f.x2 - f.a1 * f.y1 - f.a2 * f.y2

\* process(input) that leaves x2 and y2 alone
BiquadProcessNoShift(f, input) ==
    [f EXCEPT !.x1 = input, !.y1 = BiquadOutput(f, input)]

\* process(input): the filter after the call
BiquadProcess(f, input) ==
    [f EXCEPT !.x2 = f.x1, !.x1 = input, !.y2 = f.y1, !.y1 = BiquadOutput(f, input)]

BiquadFilterProcess ==
    /\ bqCall.n < MaxCalls
    /\ \E input \in Inputs :
          /\ filter' = BiquadProcess(filter, input)
          /\ bqCall' = [op |-> "process", n |-> bqCall.n + 1, input |-> input,
                        output |-> BiquadOutput(filter, input)]
    /\ UNCHANGED <<dlVars, sbVars, bvVars, clVars, rlVars, pgVars>>

NextBiquad == SetLowpass \/ BiquadFilterProcess

----------------------------------------------------------------------------
(* scripts/version.js: strings and numbers *)

\* A string is the sequence of its characters.
DigitChars == <<"0", "1", "2", "3", "4", "5", "6", "7", "8", "9">>
IsDigit(c) == \E d \in 1 .. 10 : DigitChars[d] = c
DigitVal(c) == (CHOOSE d \in 1 .. 10 : DigitChars[d] = c) - 1

\* JavaScript values of the arithmetic: a number, NaN, or undefined
Num(n) == [k |-> "num", n |-> n]
NaN == [k |-> "nan"]
Undef == [k |-> "undefined"]

\* String(n) of a non-negative integer
RECURSIVE NumberToString(_)
NumberToString(n) ==
    IF n < 10 THEN <<DigitChars[n + 1]>>
    ELSE NumberToString(n \div 10) \o <<DigitChars[(n % 10) + 1]>>

\* `${v}`: a value inside a template literal
Str(v) ==
    IF v.k = "nan" THEN <<"N", "a", "N">>
    ELSE IF v.k = "undefined" THEN <<"u", "n", "d", "e", "f", "i", "n", "e", "d">>
    ELSE IF v.n < 0 THEN <<"-">> \o NumberToString(0 - v.n)
    ELSE NumberToString(v.n)

\* v + 1: NaN and undefined give NaN
Add1(v) == IF v.k = "num" THEN Num(v.n + 1) ELSE NaN

\* the longest prefix of digits
RECURSIVE DigitsPrefix(_)
DigitsPrefix(str) ==
    IF str = <<>> \/ ~IsDigit(Head(str)) THEN <<>>
    ELSE <<Head(str)>> \o DigitsPrefix(Tail(str))

\* the value of a sequence of digits
RECURSIVE DigitsValue(_)
DigitsValue(ds) ==
    IF ds = <<>> THEN 0
    ELSE DigitsValue(SubSeq(ds, 1, Len(ds) - 1)) * 10 + DigitVal(ds[Len(ds)])

\* parseInt(str): an optional sign, then the digits up to the first other
\* character; NaN when there is no digit
parseInt(str) ==
    LET signed == str # <<>> /\ Head(str) \in {"-", "+"}
        body   == IF signed THEN Tail(str) ELSE str
        ds     == DigitsPrefix(body)
    IN  IF ds = <<>> THEN NaN
        ELSE IF signed /\ Head(str) = "-" THEN Num(0 - DigitsValue(ds))
        ELSE Num(DigitsValue(ds))

\* str.includes(c), for a one-character c
includes(str, c) == \E i \in 1 .. Len(str) : str[i] = c

\* str.split(sep), for a one-character separator
RECURSIVE split(_, _)
split(str, sep) ==
    IF ~includes(str, sep) THEN <<str>>
    ELSE LET i == CHOOSE j \in 1 .. Len(str) :
                      str[j] = sep /\ \A h \in 1 .. (j - 1) : str[h] # sep
         IN  <<SubSeq(str, 1, i - 1)>> \o split(SubSeq(str, i + 1, Len(str)), sep)

\* an element of an array of numbers taken by destructuring
NumAt(arr, i) == IF i <= Len(arr) THEN arr[i] ELSE Undef

\* parseInt of an element of an array of strings taken by destructuring:
\* parseInt(undefined) is NaN
parseIntAt(arr, i) == IF i <= Len(arr) THEN parseInt(arr[i]) ELSE NaN

----------------------------------------------------------------------------
(* scripts/version.js: bumpVersion *)

VERSION_TYPES == {"major", "minor", "patch", "prerelease"}

Returned(str) == [threw |-> FALSE, value |-> str]
Thrown(message, detail) == [threw |-> TRUE, message |-> message, detail |-> detail]

\* bumpVersion with the reset of the lower components forgotten
bumpVersionKeepsLower(currentVersion, type) ==
    LET parts == split(currentVersion, ".")
        nums  == [i \in 1 .. Len(parts) |-> parseInt(split(parts[i], "-")[1])]
        major == NumAt(nums, 1)
        minor == NumAt(nums, 2)
        patch == NumAt(nums, 3)
        dot   == <<".">>
        next  == Str(major) \o dot \o Str(minor) \o dot \o Str(Add1(patch))
    IN  CASE type = "major" ->
                Returned(Str(Add1(major)) \o dot \o Str(minor) \o dot \o Str(patch))
          [] type = "minor" ->
                Returned(Str(major) \o dot \o Str(Add1(minor)) \o dot \o Str(patch))
          [] type = "patch" -> Returned(next)
          [] type = "prerelease" ->
                Returned(next \o <<"-", "b", "e", "t", "a", ".", "0">>)
          [] OTHER -> Thrown("Invalid version type", type)

\* bumpVersion(currentVersion, type)
bumpVersion(currentVersion, type) ==
    LET parts == split(currentVersion, ".")
        nums  == [i \in 1 .. Len(parts) |-> parseInt(split(parts[i], "-")[1])]
        major == NumAt(nums, 1)
        minor == NumAt(nums, 2)
        patch == NumAt(nums, 3)
        dot   == <<".">>
    IN  CASE type = "major" ->
                Returned(Str(Add1(major)) \o <<".", "0", ".", "0">>)
          [] type = "minor" ->
                Returned(Str(major) \o dot \o Str(Add1(minor)) \o <<".", "0">>)
          [] type = "patch" ->
                Returned(Str(major) \o dot \o Str(minor) \o dot \o Str(Add1(patch)))
          [] type = "prerelease" ->
                IF includes(currentVersion, "-")
                THEN LET pieces     == split(currentVersion, "-")
                         base       == pieces[1]
                         prerelease == pieces[2]
                         fields     == split(prerelease, ".")
                         tag        == fields[1]
                     IN  Returned(base \o <<"-">> \o tag \o dot
                                    \o Str(Add1(parseIntAt(fields, 2))))
                ELSE Returned(Str(major) \o dot \o Str(minor) \o dot
                                \o Str(Add1(patch)) \o <<"-", "b", "e", "t", "a", ".", "0">>)
          [] OTHER -> Thrown("Invalid version type", type)

\* the numbers the version components are drawn from: one and two digits,
\* with and without a carry
Components == {0, 1, 9, 10}

\* prerelease tags: words, a number, and a tag with a hyphen in it
Tags == { <<"b", "e", "t", "a">>, <<"r", "c">>, <<"0">>, <<"r", "c", "-", "1">> }

\* prerelease numbers
PreNums == {0, 9}

\* the text of version X.Y.Z
Version(X, Y, Z) ==
    NumberToString(X) \o <<".">> \o NumberToString(Y) \o <<".">> \o NumberToString(Z)

\* the text of version X.Y.Z-tag.N
PreVersion(X, Y, Z, tag, N) ==
    Version(X, Y, Z) \o <<"-">> \o tag \o <<".">> \o NumberToString(N)

\* the versions package.json may hold, each with the parts it was written from
CurrentVersions ==
    { [X |-> X, Y |-> Y, Z |-> Z, pre |-> FALSE, text |-> Version(X, Y, Z)] :
          X \in Components, Y \in Components, Z \in Components }
    \cup
    { [X |-> v[1], Y |-> v[2], Z |-> v[3], pre |-> TRUE, tag |-> t, N |-> n,
       text |-> PreVersion(v[1], v[2], v[3], t, n)] :
          v \in {<<1, 0, 0>>, <<0, 9, 10>>, <<10, 1, 9>>}, t \in Tags, n \in PreNums }

\* the type argument: the four version types and one that is none of them
TypeArgs == VERSION_TYPES \cup {"premajor"}

NoResult == [threw |-> FALSE, value |-> <<>>]

\* the arguments of the call are chosen, the call is not made yet
InitBump ==
    \E cur \in CurrentVersions, type \in TypeArgs :
        bump = [from |-> cur, type |-> type, called |-> FALSE, result |-> NoResult]

\* no bumpVersion call at all, for the behaviours of the other components
InitBumpIdle ==
    bump = [from |-> [X |-> 0, Y |-> 0, Z |-> 0, pre |-> FALSE, text |-> Version(0, 0, 0)],
            type |-> "patch", called |-> FALSE, result |-> NoResult]

\* the call bumpVersion(currentVersion, type)
BumpVersion ==
    /\ ~bump.called
    /\ bump' = [bump EXCEPT !.called = TRUE,
                            !.result = bumpVersion(bump.from.text, bump.type)]
    /\ UNCHANGED <<dlVars, sbVars, clVars, rlVars, pgVars, bqVars>>

----------------------------------------------------------------------------
(* scripts/version.js: generateChangelog *)

\* largest number of lines of a CHANGELOG.md that exists before the call
MaxLines == 4

NL == "\n"

\* str.startsWith(prefix)
startsWith(str, prefix) ==
    /\ Len(str) >= Len(prefix)
    /\ SubSeq(str, 1, Len(prefix)) = prefix

\* arr.join(sep)
RECURSIVE join(_, _)
join(arr, sep) ==
    IF arr = <<>> THEN <<>>
    ELSE IF Len(arr) = 1 THEN arr[1]
    ELSE arr[1] \o <<sep>> \o join(Tail(arr), sep)

\* arr.findIndex(line => line.startsWith(prefix)): 0-based, -1 when none
findIndex(arr, prefix) ==
    IF \E i \in 1 .. Len(arr) : startsWith(arr[i], prefix)
    THEN (CHOOSE i \in 1 .. Len(arr) :
              /\ startsWith(arr[i], prefix)
              /\ \A h \in 1 .. (i - 1) : ~startsWith(arr[h], prefix)) - 1
    ELSE -1

\* a || b on numbers: 0 is falsy, every other integer (-1 too) is truthy
OrElse(a, b) == IF a = 0 THEN b ELSE a

\* arr.splice(start, 0, item): a negative start counts from the end, and the
\* start is clamped to 0 .. arr.length
splice(arr, start, item) ==
    LET n  == Len(arr)
        at == IF start < 0 THEN (IF n + start < 0 THEN 0 ELSE n + start)
              ELSE IF start > n THEN n ELSE start
    IN  SubSeq(arr, 1, at) \o <<item>> \o SubSeq(arr, at + 1, n)

\* the changelog written when CHANGELOG.md does not exist
DefaultChangelog ==
    <<"#", " ", "C", "h", "a", "n", "g", "e", "l", "o", "g", "\n", "\n",
      "A", "l", "l", " ", "n", "o", "t", "a", "b", "l", "e", " ", "c", "h",
      "a", "n", "g", "e", "s", " ", "t", "o", " ", "S", "i", "g", "n", "a",
      "l", "F", "o", "r", "g", "e", " ", "w", "i", "l", "l", " ", "b", "e",
      " ", "d", "o", "c", "u", "m", "e", "n", "t", "e", "d", " ", "i", "n",
      " ", "t", "h", "i", "s", " ", "f", "i", "l", "e", ".", "\n", "\n">>

EntryOpen == <<"#", "#", " ", "[">>
EntryMid == <<"]", " ", "-", " ">>
EntryRecent ==
    <<"\n", "\n", "#", "#", "#", " ", "R", "e", "c", "e", "n", "t", " ",
      "C", "h", "a", "n", "g", "e", "s", "\n">>

\* new Date().toISOString() at the time of the call
IsoNow ==
    <<"2", "0", "2", "6", "-", "1", "1", "-", "0", "1", "T", "0", "9", ":",
      "3", "0", ":", "0", "0", ".", "0", "0", "0", "Z">>

\* generateChangelog(newVersion): the text written to CHANGELOG.md, given
\* whether the file exists, its text and the output of git log
generateChangelog(exists, text, newVersion, gitLog) ==
    LET changelog   == IF exists THEN text ELSE DefaultChangelog
        date        == split(IsoNow, "T")[1]
        newEntry    == EntryOpen \o newVersion \o EntryMid \o date
                         \o EntryRecent \o gitLog \o <<NL>>
        lines       == split(changelog, NL)
        insertIndex == OrElse(findIndex(lines, <<"#", "#", " ">>), 3)
    IN  join(splice(lines, insertIndex, newEntry), NL)

\* the lines a CHANGELOG.md is made of: its title, an empty line, a line of
\* text and two version entries
TitleLine == <<"#", " ", "C">>
TextLine == <<"-", " ", "x">>
OldEntry1 == <<"#", "#", " ", "[", "1", "]">>
OldEntry0 == <<"#", "#", " ", "[", "0", "]">>
FileLines == {TitleLine, <<>>, TextLine, OldEntry1, OldEntry0}

\* the files: every sequence of 1 .. MaxLines of these lines in which the
\* version entries are in order, newest first, and at most once each
RECURSIVE SeqsUpTo(_, _)
SeqsUpTo(S, n) ==
    IF n = 0 THEN {<<>>}
    ELSE LET shorter == SeqsUpTo(S, n - 1)
         IN  shorter \cup {Append(q, x) : q \in shorter, x \in S}

Count(q, x) == Cardinality({i \in 1 .. Len(q) : q[i] = x})

ExistingFiles ==
    { q \in SeqsUpTo(FileLines, MaxLines) :
          /\ q # <<>>
          /\ Count(q, OldEntry1) <= 1
          /\ Count(q, OldEntry0) <= 1
          /\ Count(q, TitleLine) <= 1
          /\ \A i, j \in 1 .. Len(q) :
                (q[i] = OldEntry0 /\ q[j] = OldEntry1) => j < i }

\* the output of git log --oneline: nothing, or one commit
GitLogs == { <<>>, <<"a", "1", " ", "f", NL>> }

NewVersionText == <<"1", ".", "0", ".", "1">>

\* the file before the call is chosen, the call is not made yet
InitChangelog ==
    \/ \E q \in ExistingFiles, g \in GitLogs :
          chlog = [exists |-> TRUE, text |-> join(q, NL), gitLog |-> g,
                   called |-> FALSE, written |-> <<>>]
    \/ \E g \in GitLogs :
          chlog = [exists |-> FALSE, text |-> <<>>, gitLog |-> g,
                   called |-> FALSE, written |-> <<>>]

\* no generateChangelog call at all, for the behaviours of the other components
InitChangelogIdle ==
    chlog = [exists |-> FALSE, text |-> <<>>, gitLog |-> <<>>,
             called |-> FALSE, written |-> <<>>]

\* the call generateChangelog(newVersion)
GenerateChangelog ==
    /\ ~chlog.called
    /\ chlog' = [chlog EXCEPT
                    !.called = TRUE,
                    !.written = generateChangelog(chlog.exists, chlog.text,
                                                  NewVersionText, chlog.gitLog)]
    /\ UNCHANGED <<dlVars, sbVars, bvVars, rlVars, pgVars, bqVars>>

----------------------------------------------------------------------------
(* scripts/version.js: main *)

DryRunFlag == "--dry-run"

\* the command lines: no argument, the flag alone, and each type argument
\* alone, followed by the flag, and preceded by it
CommandLines ==
    {<<>>, <<DryRunFlag>>}
    \cup {<<t>> : t \in TypeArgs}
    \cup {<<t, DryRunFlag>> : t \in TypeArgs}
    \cup {<<DryRunFlag, t>> : t \in TypeArgs}

\* args[0]; "" stands for undefined
versionTypeOf(args) == IF Len(args) >= 1 THEN args[1] ELSE ""
\* args.includes('--dry-run')
isDryRunOf(args) == \E i \in 1 .. Len(args) : args[i] = DryRunFlag
\* !versionType || !VERSION_TYPES.includes(versionType)
usageError(args) == versionTypeOf(args) = "" \/ versionTypeOf(args) \notin VERSION_TYPES

\* what git status --porcelain gives: nothing, some changes, or a failure
GitStatuses == {"clean", "dirty", "error"}
\* what git branch --show-current gives; "error" is a failure of the command
GitBranches == {"main", "develop", "feature", "error"}

\* the versions package.json holds at the start
PackageVersions == { Version(1, 0, 0), PreVersion(0, 9, 10, <<"b", "e", "t", "a">>, 9) }

\* CHANGELOG.md at the start: missing, or a title and one entry
ChangelogFiles ==
    { [exists |-> FALSE, text |-> <<>>],
      [exists |-> TRUE, text |-> join(<<TitleLine, <<>>, OldEntry1, TextLine, <<>>>>, NL)] }

InitRelease ==
    /\ argv \in CommandLines
    /\ git \in [isRepo : BOOLEAN, status : GitStatuses, branch : GitBranches,
                staged : {{}}, commits : {{}}, tags : {{}}]
    /\ files \in [package : PackageVersions, changelog : ChangelogFiles]
    /\ run = [pc |-> "main", exitCode |-> -1, steps |-> <<>>, writes |-> {},
              warned |-> FALSE, reported |-> FALSE,
              currentVersion |-> <<>>, newVersion |-> <<>>]

\* no run of main at all, for the behaviours of the other components
InitReleaseIdle ==
    /\ argv = <<>>
    /\ git = [isRepo |-> TRUE, status |-> "clean", branch |-> "main",
              staged |-> {}, commits |-> {}, tags |-> {}]
    /\ files = [package |-> Version(1, 0, 0),
                changelog |-> [exists |-> FALSE, text |-> <<>>]]
    /\ run = [pc |-> "main", exitCode |-> -1, steps |-> <<>>, writes |-> {},
              warned |-> FALSE, reported |-> FALSE,
              currentVersion |-> <<>>, newVersion |-> <<>>]

\* a step is logged with its outcome
Step(name, ok) == [name |-> name, ok |-> ok]

\* process.exit(c), and an uncaught exception, which ends node with code 1
Exit(r, c) == [r EXCEPT !.pc = "exited", !.exitCode = c]

\* main, lines 126-140: the arguments are read; a missing or unknown version
\* type prints the usage and exits with 1
ReadArguments ==
    /\ run.pc = "main"
    /\ run' = IF usageError(argv) THEN Exit(run, 1)
              ELSE [run EXCEPT !.pc = IF isDryRunOf(argv) THEN "report" ELSE "validate"]
    /\ UNCHANGED <<argv, git, files>>
    /\ UNCHANGED <<dlVars, sbVars, bvVars, clVars, pgVars, bqVars>>

\* validateRepository ignoring a dirty working tree
RepositoryVerdictNoStatus(isRepo, status, branch) ==
    IF ~isRepo THEN "exit"
    ELSE IF branch \notin {"main", "develop"} THEN "warn"
    ELSE "ok"

\* validateRepository(): "exit" when it ends the process with code 1, "warn"
\* when it returns after a warning, "ok" when it returns silently
RepositoryVerdict(isRepo, status, branch) ==
    IF ~isRepo THEN "exit"
    ELSE IF status # "clean" THEN "exit"
    ELSE IF branch \notin {"main", "develop"} THEN "warn"
    ELSE "ok"

\* main, lines 143-145: validateRepository() in a run that is not a dry run
ValidateRepository ==
    /\ run.pc = "validate"
    /\ LET verdict == RepositoryVerdict(git.isRepo, git.status, git.branch)
       IN  run' = IF verdict = "exit"
                  THEN Exit([run EXCEPT !.steps = Append(@, Step("validate", FALSE))], 1)
                  ELSE [run EXCEPT !.steps = Append(@, Step("validate", TRUE)),
                                   !.warned = (verdict = "warn"),
                                   !.pc = "report"]
    /\ UNCHANGED <<argv, git, files>>
    /\ UNCHANGED <<dlVars, sbVars, bvVars, clVars, pgVars, bqVars>>

\* where main goes after the report when the dry-run test is left out
AfterReportAlways(isDryRun) == "test"

\* main, lines 154-157: a dry run returns after the report
AfterReport(isDryRun) == IF isDryRun THEN "done" ELSE "test"

\* main, lines 147-157: the current version is read, the new one computed,
\* both are printed; a dry run returns here
ReportVersions ==
    /\ run.pc = "report"
    /\ LET currentVersion == files.package
           newVersion     == bumpVersion(currentVersion, versionTypeOf(argv)).value
           next           == AfterReport(isDryRunOf(argv))
       IN  run' = [run EXCEPT !.currentVersion = currentVersion,
                              !.newVersion = newVersion,
                              !.reported = TRUE,
                              !.pc = next,
                              !.exitCode = IF next = "done" THEN 0 ELSE @]
    /\ UNCHANGED <<argv, git, files>>
    /\ UNCHANGED <<dlVars, sbVars, bvVars, clVars, pgVars, bqVars>>

\* runCommand without the process.exit(1) of its catch block
AfterCommandNoExit(r, name, ok, next) ==
    [r EXCEPT !.steps = Append(@, Step(name, ok)), !.pc = next]

\* runCommand(command, description): the command is run; when it fails the
\* process exits with 1, otherwise main goes on
AfterCommand(r, name, ok, next) ==
    IF ok THEN [r EXCEPT !.steps = Append(@, Step(name, TRUE)), !.pc = next]
    ELSE Exit([r EXCEPT !.steps = Append(@, Step(name, FALSE))], 1)

\* main, line 162: npm run test
RunTests ==
    /\ run.pc = "test"
    /\ \E ok \in BOOLEAN : run' = AfterCommand(run, "test", ok, "build")
    /\ UNCHANGED <<argv, git, files>>
    /\ UNCHANGED <<dlVars, sbVars, bvVars, clVars, pgVars, bqVars>>

\* main, line 163: npm run build
RunBuild ==
    /\ run.pc = "build"
    /\ \E ok \in BOOLEAN : run' = AfterCommand(run, "build", ok, "package.json")
    /\ UNCHANGED <<argv, git, files>>
    /\ UNCHANGED <<dlVars, sbVars, bvVars, clVars, pgVars, bqVars>>

\* main, lines 166-167: updatePackageJson(newVersion)
UpdatePackageJson ==
    /\ run.pc = "package.json"
    /\ files' = [files EXCEPT !.package = run.newVersion]
    /\ run' = [run EXCEPT !.steps = Append(@, Step("package.json", TRUE)),
                          !.writes = @ \cup {"package.json"},
                          !.pc = "CHANGELOG.md"]
    /\ UNCHANGED <<argv, git>>
    /\ UNCHANGED <<dlVars, sbVars, bvVars, clVars, pgVars, bqVars>>

\* main, lines 170-171: generateChangelog(newVersion); git log may fail, and
\* the exception of execSync is caught by nobody
UpdateChangelog ==
    /\ run.pc = "CHANGELOG.md"
    /\ \/ \E gitLog \in GitLogs :
            /\ files' = [files EXCEPT !.changelog =
                            [exists |-> TRUE,
                             text |-> generateChangelog(files.changelog.exists,
                                          files.changelog.text, run.newVersion, gitLog)]]
            /\ run' = [run EXCEPT !.steps = Append(@, Step("CHANGELOG.md", TRUE)),
                                  !.writes = @ \cup {"CHANGELOG.md"},
                                  !.pc = "git add"]
       \/ /\ run' = Exit([run EXCEPT !.steps = Append(@, Step("CHANGELOG.md", FALSE))], 1)
          /\ UNCHANGED files
    /\ UNCHANGED <<argv, git>>
    /\ UNCHANGED <<dlVars, sbVars, bvVars, clVars, pgVars, bqVars>>

\* main, line 174: git add package.json CHANGELOG.md
GitAdd ==
    /\ run.pc = "git add"
    /\ \E ok \in BOOLEAN :
          /\ run' = AfterCommand(run, "git add", ok, "git commit")
          /\ git' = IF ok THEN [git EXCEPT !.staged = {"package.json", "CHANGELOG.md"}]
                    ELSE git
    /\ UNCHANGED <<argv, files>>
    /\ UNCHANGED <<dlVars, sbVars, bvVars, clVars, pgVars, bqVars>>

\* main, line 175: git commit -m "chore: bump version to <newVersion>"
GitCommit ==
    /\ run.pc = "git commit"
    /\ \E ok \in BOOLEAN :
          /\ run' = AfterCommand(run, "git commit", ok, "git tag")
          /\ git' = IF ok THEN [git EXCEPT !.staged = {},
                                           !.commits = @ \cup {run.newVersion}]
                    ELSE git
    /\ UNCHANGED <<argv, files>>
    /\ UNCHANGED <<dlVars, sbVars, bvVars, clVars, pgVars, bqVars>>

\* main, lines 176-185: git tag -a v<newVersion>, then the closing messages
GitTag ==
    /\ run.pc = "git tag"
    /\ \E ok \in BOOLEAN :
          /\ run' = LET r == AfterCommand(run, "git tag", ok, "done")
                    IN  IF r.pc = "done" THEN [r EXCEPT !.exitCode = 0] ELSE r
          /\ git' = IF ok THEN [git EXCEPT !.tags = @ \cup {run.newVersion}] ELSE git
    /\ UNCHANGED <<argv, files>>
    /\ UNCHANGED <<dlVars, sbVars, bvVars, clVars, pgVars, bqVars>>

NextRelease ==
    \/ ReadArguments
    \/ ValidateRepository
    \/ ReportVersions
    \/ RunTests
    \/ RunBuild
    \/ UpdatePackageJson
    \/ UpdateChangelog
    \/ GitAdd
    \/ GitCommit
    \/ GitTag

----------------------------------------------------------------------------
(* The entry module of the page, and the element it mounts *)

\* the children of the container: what index.html put there, the mounted
\* application, or the 'Browser Not Supported' message
Placeholder == <<"loading">>
Mounted == <<"signalforge-app">>
NotSupported == <<"Browser Not Supported">>

\* what the element shows in its main content: nothing before its first
\* render, then the welcome screen with its start button or the node editor
NotRendered == [screen |-> "nothing", startButton |-> "absent"]

\* the views of the application
Views == {"welcome", "node-editor"}

\* the page when the entry module starts to run: the document is still
\* loading or not, the container is in the page or not and, while the
\* document is loading, parsed already or not
InitPage ==
    /\ readyState \in {"loading", "interactive", "complete"}
    /\ container \in [inDocument : BOOLEAN, parsed : BOOLEAN, children : {Placeholder}]
    /\ container.parsed => container.inDocument
    /\ readyState # "loading" => container.parsed = container.inDocument
    /\ audioApi \in [AudioContext : BOOLEAN, webkitAudioContext : BOOLEAN]
    /\ startup = [pc |-> "define", defined |-> FALSE, listener |-> FALSE,
                  initCalls |-> 0, errors |-> {}]
    /\ app = [created |-> FALSE, connected |-> FALSE, updated |-> FALSE,
              audioContextReady |-> FALSE, currentView |-> "node-editor",
              shown |-> NotRendered]

\* no page at all, for the behaviours of the other components
InitPageIdle ==
    /\ readyState = "complete"
    /\ container = [inDocument |-> TRUE, parsed |-> TRUE, children |-> Placeholder]
    /\ audioApi = [AudioContext |-> TRUE, webkitAudioContext |-> FALSE]
    /\ startup = [pc |-> "define", defined |-> FALSE, listener |-> FALSE,
                  initCalls |-> 0, errors |-> {}]
    /\ app = [created |-> FALSE, connected |-> FALSE, updated |-> FALSE,
              audioContextReady |-> FALSE, currentView |-> "node-editor",
              shown |-> NotRendered]

\* customElements.define('signalforge-app', SignalForgeApp)
DefineElement ==
    /\ startup.pc = "define"
    /\ startup' = [startup EXCEPT !.defined = TRUE, !.pc = "wait-for-dom"]
    /\ UNCHANGED <<readyState, container, audioApi, app>>
    /\ UNCHANGED <<dlVars, sbVars, bvVars, clVars, rlVars, bqVars>>

\* init(): whether it throws, and the container, the element and the startup
\* record after it
initThrows(c) == ~c.parsed
\* init() appending the element without clearing the container
initContainerKeeps(c) ==
    IF initThrows(c) THEN c ELSE [c EXCEPT !.children = @ \o Mounted]
initContainer(c) == IF initThrows(c) THEN c ELSE [c EXCEPT !.children = Mounted]
initApp(c, a) ==
    IF initThrows(c) THEN a ELSE [a EXCEPT !.created = TRUE, !.connected = TRUE]
initStartup(c, st) ==
    IF initThrows(c)
    THEN [st EXCEPT !.initCalls = @ + 1, !.errors = @ \cup {"App container not found"}]
    ELSE [st EXCEPT !.initCalls = @ + 1]

\* the readyState test: while the document is loading init is registered for
\* DOMContentLoaded, otherwise it runs now; when it throws now, the
\* evaluation of the module ends there
WaitForDom ==
    /\ startup.pc = "wait-for-dom"
    /\ IF readyState = "loading"
       THEN /\ startup' = [startup EXCEPT !.listener = TRUE, !.pc = "audio-check"]
            /\ UNCHANGED <<container, app>>
       ELSE /\ container' = initContainer(container)
            /\ app' = initApp(container, app)
            /\ startup' = [initStartup(container, startup) EXCEPT
                              !.pc = IF initThrows(container) THEN "aborted"
                                     ELSE "audio-check"]
    /\ UNCHANGED <<readyState, audioApi>>
    /\ UNCHANGED <<dlVars, sbVars, bvVars, clVars, rlVars, bqVars>>

\* !window.AudioContext && !window.webkitAudioContext
notSupported(api) == ~api.AudioContext /\ ~api.webkitAudioContext

\* the Web Audio check at the end of the module: without the API the
\* children of the container, if it is there, are replaced by the message
CheckWebAudio ==
    /\ startup.pc = "audio-check"
    /\ startup' = [startup EXCEPT !.pc = "finished"]
    /\ IF notSupported(audioApi) /\ container.parsed
       THEN /\ container' = [container EXCEPT !.children = NotSupported]
            /\ app' = [app EXCEPT !.connected = FALSE]
       ELSE UNCHANGED <<container, app>>
    /\ UNCHANGED <<readyState, audioApi>>
    /\ UNCHANGED <<dlVars, sbVars, bvVars, clVars, rlVars, bqVars>>

\* the document has been parsed: DOMContentLoaded is dispatched after the
\* module has run, and init runs if it was registered
DOMContentLoaded ==
    /\ readyState = "loading"
    /\ startup.pc \in {"finished", "aborted"}
    /\ readyState' = "interactive"
    /\ LET parsed == [container EXCEPT !.parsed = container.inDocument]
       IN  IF startup.listener
           THEN /\ container' = initContainer(parsed)
                /\ app' = initApp(parsed, app)
                /\ startup' = initStartup(parsed, startup)
           ELSE /\ container' = parsed
                /\ UNCHANGED <<app, startup>>
    /\ UNCHANGED audioApi
    /\ UNCHANGED <<dlVars, sbVars, bvVars, clVars, rlVars, bqVars>>

\* the load event: the document is complete
WindowLoad ==
    /\ readyState = "interactive"
    /\ startup.pc \in {"finished", "aborted"}
    /\ readyState' = "complete"
    /\ UNCHANGED <<container, audioApi, startup, app>>
    /\ UNCHANGED <<dlVars, sbVars, bvVars, clVars, rlVars, bqVars>>

\* renderWelcomeScreen(): the start button is disabled until the audio
\* context is ready
renderWelcomeScreen(a) ==
    [screen |-> "welcome-screen",
     startButton |-> IF ~a.audioContextReady THEN "disabled" ELSE "enabled"]

\* renderNodeEditor(): no start button
renderNodeEditor == [screen |-> "node-editor", startButton |-> "absent"]

\* render() choosing by the current view alone
renderViewOnly(a) ==
    IF a.currentView = "welcome" THEN renderWelcomeScreen(a) ELSE renderNodeEditor

\* render(): the main content for the properties of the element
render(a) ==
    IF a.currentView = "welcome" \/ ~a.audioContextReady
    THEN renderWelcomeScreen(a)
    ELSE renderNodeEditor

\* the update of the element that follows a change of its properties, in
\* the same turn of the event loop: it renders again
update(a) == [a EXCEPT !.shown = render(a)]

\* initializeAudioContext(): ready unless neither constructor exists (the
\* error thrown then is caught and logged)
initializeAudioContext(a, api) ==
    IF notSupported(api) THEN a ELSE [a EXCEPT !.audioContextReady = TRUE]

\* The first update of the element, after the module has run: the first
\* render, then SignalForgeApp.firstUpdated, which calls
\* initializeAudioContext, and the render that follows its change.
FirstUpdated ==
    /\ app.created
    /\ ~app.updated
    /\ startup.pc \in {"finished", "aborted"}
    /\ app' = update(initializeAudioContext(
                        [update(app) EXCEPT !.updated = TRUE], audioApi))
    /\ UNCHANGED <<readyState, container, audioApi, startup>>
    /\ UNCHANGED <<dlVars, sbVars, bvVars, clVars, rlVars, bqVars>>

\* the currentView property of the element is set from outside; an element
\* that has rendered renders again
SetCurrentView ==
    /\ app.created
    /\ \E v \in Views :
          /\ v # app.currentView
          /\ app' = IF app.updated THEN update([app EXCEPT !.currentView = v])
                    ELSE [app EXCEPT !.currentView = v]
    /\ UNCHANGED <<readyState, container, audioApi, startup>>
    /\ UNCHANGED <<dlVars, sbVars, bvVars, clVars, rlVars, bqVars>>

\* handleStartApplication(): nothing while the audio context is not ready,
\* otherwise the node editor becomes the current view
handleStartApplication(a) ==
    IF ~a.audioContextReady THEN a ELSE update([a EXCEPT !.currentView = "node-editor"])

\* a click on the start button; a disabled button dispatches no click
ClickStart ==
    /\ app.connected
    /\ app.shown.startButton = "enabled"
    /\ app' = handleStartApplication(app)
    /\ UNCHANGED <<readyState, container, audioApi, startup>>
    /\ UNCHANGED <<dlVars, sbVars, bvVars, clVars, rlVars, bqVars>>

NextPage ==
    \/ DefineElement
    \/ WaitForDom
    \/ CheckWebAudio
    \/ DOMContentLoaded
    \/ WindowLoad
    \/ FirstUpdated
    \/ SetCurrentView
    \/ ClickStart

----------------------------------------------------------------------------
(* ScriptSandbox *)

\* ScriptSandbox.timeout, in milliseconds
timeout == 5000
\* validateScript: the largest accepted code.length
MaxScriptSize == 10000

\* the patterns validateScript tests for
dangerous == {"eval(", "Function(", "constructor[", "__proto__",
              "document.", "window.", "global."}

\* A script text, by what the validation can tell about it: the constructs
\* occurring in it and its length.
Codes ==
    { [constructs |-> {},                     length |-> 40],
      [constructs |-> {"eval("},              length |-> 40],
      [constructs |-> {"window.", "fetch("},  length |-> 40],
      [constructs |-> {"setTimeout("},        length |-> MaxScriptSize],
      [constructs |-> {},                     length |-> MaxScriptSize + 1] }

NoCode == [constructs |-> {}, length |-> 0]

\* validateScript(code): the error it throws, "" when it returns normally
validateScript(c) ==
    IF c.constructs \cap dangerous # {} THEN "Script contains unsafe code patterns"
    ELSE IF c.length > MaxScriptSize THEN "Script exceeds maximum size"
    ELSE ""

Inv == 1 .. MaxInv

\* constructor(): this.worker = null
InitSandbox ==
    /\ worker = 0
    /\ workers = [i \in Inv |-> "none"]
    /\ timer = [i \in Inv |-> "none"]
    /\ promise = [i \in Inv |-> "none"]
    /\ url = [i \in Inv |-> "none"]
    /\ posted = [i \in Inv |-> FALSE]
    /\ code = [i \in Inv |-> NoCode]
    /\ uncaught = {}

\* a delay line nobody calls, for the behaviours of the sandbox alone
InitDelayIdle ==
    /\ size = 1
    /\ buffer = [i \in 0 .. 0 |-> 0]
    /\ writeIndex = 0
    /\ dlCall = NoCall

\* executeUserScript(code, audioData), up to the return of the promise: the
\* body has no await, so it runs in one turn of the event loop.
Execute(i, c) ==
    /\ promise[i] = "none"
    /\ \A j \in Inv : j < i => promise[j] # "none"
    /\ code' = [code EXCEPT ![i] = c]
    /\ IF validateScript(c) # ""
       THEN \* the throw rejects the promise of the async function
            /\ promise' = [promise EXCEPT ![i] = "rejected"]
            /\ UNCHANGED <<worker, workers, timer, url, posted>>
       ELSE /\ url' = [url EXCEPT ![i] = "live"]
            /\ workers' = [workers EXCEPT ![i] = "running"]
            /\ worker' = i
            /\ timer' = [timer EXCEPT ![i] = "armed"]
            /\ posted' = [posted EXCEPT ![i] = TRUE]
            /\ promise' = [promise EXCEPT ![i] = "pending"]
    /\ UNCHANGED uncaught

executeUserScript ==
    /\ \E i \in Inv, c \in Codes : Execute(i, c)
    /\ UNCHANGED <<dlVars, bvVars, clVars, rlVars, pgVars, bqVars>>

\* clearTimeout(timeoutId): a timer that has not fired is cancelled
clearTimeout(t) == IF t = "armed" THEN "cleared" ELSE t

\* resolve / reject: only a pending promise settles
settle(p, outcome) == IF p = "pending" THEN outcome ELSE p

\* worker.onmessage of invocation i: its worker posted a message
OnMessage(i) ==
    /\ workers[i] = "running"
    /\ timer' = [timer EXCEPT ![i] = clearTimeout(timer[i])]
    /\ url' = [url EXCEPT ![i] = "revoked"]
    /\ promise' = [promise EXCEPT ![i] = settle(promise[i], "resolved")]
    /\ UNCHANGED <<worker, workers, posted, code, uncaught>>

onmessage ==
    /\ \E i \in Inv : OnMessage(i)
    /\ UNCHANGED <<dlVars, bvVars, clVars, rlVars, pgVars, bqVars>>

\* worker.onerror of invocation i: its worker raised an error
OnError(i) ==
    /\ workers[i] = "running"
    /\ timer' = [timer EXCEPT ![i] = clearTimeout(timer[i])]
    /\ url' = [url EXCEPT ![i] = "revoked"]
    /\ promise' = [promise EXCEPT ![i] = settle(promise[i], "rejected")]
    /\ UNCHANGED <<worker, workers, posted, code, uncaught>>

onerror ==
    /\ \E i \in Inv : OnError(i)
    /\ UNCHANGED <<dlVars, bvVars, clVars, rlVars, pgVars, bqVars>>

\* the setTimeout callback of invocation i: terminate this.worker, then throw.
\* The throw happens in a timer task: nothing catches it and the promise of
\* the invocation is neither resolved nor rejected by it.
OnTimeout(i) ==
    /\ timer[i] = "armed"
    /\ timer' = [timer EXCEPT ![i] = "fired"]
    /\ workers' = [workers EXCEPT ![worker] = "terminated"]
    /\ uncaught' = uncaught \cup {i}
    /\ UNCHANGED <<worker, promise, url, posted, code>>

ontimeout ==
    /\ \E i \in Inv : OnTimeout(i)
    /\ UNCHANGED <<dlVars, bvVars, clVars, rlVars, pgVars, bqVars>>

NextSandbox == executeUserScript \/ onmessage \/ onerror \/ ontimeout

\* the sandbox as constructed, next to a delay line nobody calls
InitSandboxOnly ==
    InitSandbox /\ InitDelayIdle /\ InitBumpIdle /\ InitChangelogIdle /\ InitReleaseIdle /\ InitPageIdle
        /\ InitBiquadIdle

SpecSandbox == InitSandboxOnly /\ [][NextSandbox]_vars

----------------------------------------------------------------------------
(* bumpVersion alone *)

NextBump == BumpVersion

\* the arguments of one call, next to a delay line and a sandbox nobody calls
InitBumpOnly ==
    InitBump /\ InitDelayIdle /\ InitSandbox /\ InitChangelogIdle /\ InitReleaseIdle /\ InitPageIdle
        /\ InitBiquadIdle

SpecBump == InitBumpOnly /\ [][NextBump]_vars

----------------------------------------------------------------------------
(* generateChangelog alone *)

NextChangelog == GenerateChangelog

\* the file before one call, next to the other components left alone
InitChangelogOnly ==
    InitChangelog /\ InitDelayIdle /\ InitSandbox /\ InitBumpIdle /\ InitReleaseIdle /\ InitPageIdle
        /\ InitBiquadIdle

SpecChangelog == InitChangelogOnly /\ [][NextChangelog]_vars

----------------------------------------------------------------------------
(* main of scripts/version.js alone *)

\* one run of the release script, next to the other components left alone
InitReleaseOnly ==
    InitRelease /\ InitDelayIdle /\ InitSandbox /\ InitBumpIdle /\ InitChangelogIdle
        /\ InitPageIdle /\ InitBiquadIdle

SpecRelease == InitReleaseOnly /\ [][NextRelease]_vars

----------------------------------------------------------------------------
(* The page alone *)

\* one page load, next to the other components left alone
InitPageOnly ==
    InitPage /\ InitDelayIdle /\ InitSandbox /\ InitBumpIdle /\ InitChangelogIdle
        /\ InitReleaseIdle /\ InitBiquadIdle

SpecPage == InitPageOnly /\ [][NextPage]_vars

----------------------------------------------------------------------------
(* The biquad filter alone *)

\* one filter as constructed, next to the other components left alone
InitBiquadOnly ==
    InitBiquad /\ InitDelayIdle /\ InitSandbox /\ InitBumpIdle /\ InitChangelogIdle
        /\ InitReleaseIdle /\ InitPageIdle

SpecBiquad == InitBiquadOnly /\ [][NextBiquad]_vars

----------------------------------------------------------------------------
(* The delay line alone: the sandbox stays as constructed *)

NextDelay == DelayProcess

\* the delay line as constructed, next to a sandbox nobody calls
InitDelayOnly ==
    InitDelay /\ InitSandbox /\ InitBumpIdle /\ InitChangelogIdle /\ InitReleaseIdle /\ InitPageIdle
        /\ InitBiquadIdle

SpecDelay == InitDelayOnly /\ [][NextDelay]_vars

----------------------------------------------------------------------------
(* Claims *)

\* C9: a delay line with delay = 0 returns its input unchanged: whatever was
\* processed before, DelayLine.process(x, 0) returns x.
DelayZeroReturnsInput ==
    (dlCall.called /\ dlCall.delayTime2 = 0) => dlCall.output = dlCall.input

\* C10: a script invocation that runs out of its time budget still ends with
\* a defined outcome: once its timer has fired and its worker is terminated
\* (no message or error of that worker can arrive any more) its promise is
\* settled, and no timeout is ever raised as an uncaught error in the host.
TimeoutSettlesInvocation ==
    /\ uncaught = {}
    /\ \A i \in Inv :
          (timer[i] = "fired" /\ workers[i] = "terminated")
              => promise[i] \in {"resolved", "rejected"}

\* What C11 counts as a construct the static validation has to refuse: the
\* listed unsafe patterns and the constructs reaching timers, network,
\* storage or reflection.
RestrictedConstructs ==
    dangerous \cup {"setTimeout(", "fetch(", "localStorage", "Reflect."}

\* C11: static validation runs before any execution: an invocation whose
\* script contains a restricted construct is rejected, and no worker and no
\* blob URL is created for it and no audio data is posted to it.
ValidationBeforeExecution ==
    \A i \in Inv :
        (promise[i] # "none" /\ code[i].constructs \cap RestrictedConstructs # {})
            => /\ promise[i] = "rejected"
               /\ workers[i] = "none"
               /\ url[i] = "none"
               /\ ~posted[i]

\* C13: for a current version X.Y.Z without a prerelease suffix, bumpVersion
\* returns (X+1).0.0 for major, X.(Y+1).0 for minor, X.Y.(Z+1) for patch and
\* X.Y.(Z+1)-beta.0 for prerelease; any other type raises 'Invalid version
\* type'.
BumpPlainVersion ==
    (bump.called /\ ~bump.from.pre) =>
        LET X == bump.from.X
            Y == bump.from.Y
            Z == bump.from.Z
        IN  CASE bump.type = "major" ->
                    bump.result = Returned(Version(X + 1, 0, 0))
              [] bump.type = "minor" ->
                    bump.result = Returned(Version(X, Y + 1, 0))
              [] bump.type = "patch" ->
                    bump.result = Returned(Version(X, Y, Z + 1))
              [] bump.type = "prerelease" ->
                    bump.result = Returned(Version(X, Y, Z + 1)
                                             \o <<"-", "b", "e", "t", "a", ".", "0">>)
              [] OTHER ->
                    bump.result.threw /\ bump.result.message = "Invalid version type"

\* C13 happens: the minor bump of 0.9.10 has been computed, and it is 0.10.0
BumpPlainVersionHappens ==
    /\ bump.called
    /\ bump.from.text = <<"0", ".", "9", ".", "1", "0">>
    /\ bump.type = "minor"
    /\ bump.result = Returned(<<"0", ".", "1", "0", ".", "0">>)

\* C18: for a current version X.Y.Z-tag.N, bumpVersion with type prerelease
\* returns X.Y.Z-tag.(N+1), and with type major, minor or patch the suffix
\* is dropped and the result is computed from X, Y, Z alone.
BumpPrereleaseVersion ==
    (bump.called /\ bump.from.pre) =>
        LET X == bump.from.X
            Y == bump.from.Y
            Z == bump.from.Z
        IN  /\ bump.type = "prerelease" =>
                  bump.result = Returned(PreVersion(X, Y, Z, bump.from.tag, bump.from.N + 1))
            /\ bump.type = "major" => bump.result = Returned(Version(X + 1, 0, 0))
            /\ bump.type = "minor" => bump.result = Returned(Version(X, Y + 1, 0))
            /\ bump.type = "patch" => bump.result = Returned(Version(X, Y, Z + 1))

\* the lines of CHANGELOG.md before the call (of the default text when the
\* file is missing) and after it
LinesBefore == split(IF chlog.exists THEN chlog.text ELSE DefaultChangelog, NL)
LinesAfter == split(chlog.written, NL)

\* the first line of the new entry: ## [1.0.1] - 2026-11-01
NewEntryLine ==
    <<"#", "#", " ", "[", "1", ".", "0", ".", "1", "]", " ", "-", " ",
      "2", "0", "2", "6", "-", "1", "1", "-", "0", "1">>

IsEntryLine(line) == startsWith(line, <<"#", "#", " ">>)

\* a is b with some elements left out
RECURSIVE IsSubsequence(_, _)
IsSubsequence(a, b) ==
    IF a = <<>> THEN TRUE
    ELSE IF b = <<>> THEN FALSE
    ELSE IF Head(a) = Head(b) THEN IsSubsequence(Tail(a), Tail(b))
    ELSE IsSubsequence(a, Tail(b))

\* the file header: the lines before the first version entry, without the
\* empty lines that end them
RECURSIVE HeaderLength(_, _)
HeaderLength(lines, n) ==
    IF n = 0 THEN 0
    ELSE IF (\E i \in 1 .. n : IsEntryLine(lines[i])) \/ lines[n] = <<>>
    THEN HeaderLength(lines, n - 1)
    ELSE n

\* C19: generateChangelog puts the new entry after the file header and
\* before every version entry the file had, and every line the file had is
\* still there, in the order it was in.
ChangelogNewestFirst ==
    chlog.called =>
        LET hdr == HeaderLength(LinesBefore, Len(LinesBefore))
        IN  /\ \E k \in 1 .. Len(LinesAfter) :
                  /\ LinesAfter[k] = NewEntryLine
                  /\ k > hdr
                  /\ SubSeq(LinesAfter, 1, hdr) = SubSeq(LinesBefore, 1, hdr)
                  /\ \A j \in 1 .. Len(LinesAfter) :
                        (IsEntryLine(LinesAfter[j]) /\ j # k) => j > k
            /\ IsSubsequence(LinesBefore, LinesAfter)

\* nothing was written and git was not made to do anything
NothingChanged ==
    /\ run.writes = {}
    /\ files.package \in PackageVersions
    /\ files.changelog \in ChangelogFiles
    /\ git.staged = {}
    /\ git.commits = {}
    /\ git.tags = {}

\* C14: with a valid version type and --dry-run, main reports the current
\* and the new version and returns without any change: no repository
\* validation, no tests, no build, no write of package.json or CHANGELOG.md,
\* no git add, commit or tag.
DryRunChangesNothing ==
    (isDryRunOf(argv) /\ ~usageError(argv)) =>
        /\ run.steps = <<>>
        /\ NothingChanged
        /\ run.pc \in {"main", "report", "done"}
        /\ run.pc = "done" =>
              /\ run.exitCode = 0
              /\ run.reported
              /\ run.currentVersion = files.package

\* C14 happens: the dry run of a minor bump of 1.0.0 has returned, having
\* reported 1.1.0
DryRunChangesNothingHappens ==
    /\ argv = <<"minor", DryRunFlag>>
    /\ run.pc = "done"
    /\ run.currentVersion = <<"1", ".", "0", ".", "0">>
    /\ run.newVersion = <<"1", ".", "1", ".", "0">>

\* the order C16 gives to the steps of a release
ReleaseSteps ==
    <<"validate", "test", "build", "package.json", "CHANGELOG.md",
      "git add", "git commit", "git tag">>

\* C16: the steps of a release happen in the order validation, tests, build,
\* package.json, CHANGELOG.md, git add, git commit, git tag; a failed step
\* is the last one and the process has then exited with code 1; the tag
\* exists only if all eight steps succeeded, and package.json is written only
\* after tests and build succeeded.
ReleaseStepsInOrder ==
    LET n == Len(run.steps)
    IN  /\ n <= Len(ReleaseSteps)
        /\ \A i \in 1 .. n : run.steps[i].name = ReleaseSteps[i]
        /\ \A i \in 1 .. (n - 1) : run.steps[i].ok
        /\ (n > 0 /\ ~run.steps[n].ok) => (run.pc = "exited" /\ run.exitCode = 1)
        /\ git.tags # {} =>
              /\ n = Len(ReleaseSteps)
              /\ run.steps[n].ok
              /\ git.tags = {run.newVersion}
        /\ ("package.json" \in run.writes \/ files.package \notin PackageVersions) =>
              /\ n >= 3
              /\ run.steps[2] = Step("test", TRUE)
              /\ run.steps[3] = Step("build", TRUE)

\* C16 happens: the patch release of 1.0.0 went through all eight steps and
\* tagged 1.0.1
ReleaseStepsInOrderHappens ==
    /\ run.pc = "done"
    /\ Len(run.steps) = 8
    /\ files.package = <<"1", ".", "0", ".", "1">>
    /\ git.tags = {<<"1", ".", "0", ".", "1">>}

\* C17: the script exits with code 1, having written nothing and run no
\* tests, build or git add/commit/tag, when the version type is missing or
\* unknown or, in a run that is not a dry run, when the directory is no git
\* repository or the working tree is dirty; a branch other than main or
\* develop only warns and the run goes on.
ReleaseRefusals ==
    LET refused == \/ usageError(argv)
                   \/ ~isDryRunOf(argv) /\ (~git.isRepo \/ git.status = "dirty")
        offBranch == /\ ~usageError(argv)
                     /\ ~isDryRunOf(argv)
                     /\ git.isRepo
                     /\ git.status = "clean"
                     /\ git.branch \notin {"main", "develop"}
    IN  /\ refused =>
              /\ NothingChanged
              /\ \A i \in 1 .. Len(run.steps) : run.steps[i].name = "validate"
              /\ run.pc \in {"main", "validate", "exited"}
              /\ run.pc = "exited" => run.exitCode = 1
        /\ (offBranch /\ run.pc \notin {"main", "validate"}) =>
              /\ run.warned
              /\ run.steps[1] = Step("validate", TRUE)

\* C17 happens: a patch release in a dirty working tree has exited with 1
ReleaseRefusalsHappens ==
    /\ argv = <<"patch">>
    /\ git.isRepo
    /\ git.status = "dirty"
    /\ run.pc = "exited"
    /\ run.exitCode = 1
    /\ run.steps = <<Step("validate", FALSE)>>

\* startup has finished: the module has run and DOMContentLoaded is past
StartupFinished ==
    /\ startup.pc \in {"finished", "aborted"}
    /\ readyState # "loading"

\* C20: without window.AudioContext and window.webkitAudioContext, once
\* startup has finished the #app container shows the 'Browser Not Supported'
\* message, whichever readyState branch was taken, and the mounted
\* application never replaces it.
UnsupportedMessageStays ==
    (notSupported(audioApi) /\ container.inDocument /\ StartupFinished)
        => container.children = NotSupported

\* C21: init runs exactly once per page load, at once or on
\* DOMContentLoaded: never twice, once when startup has finished, and never
\* before the element 'signalforge-app' is defined. The call of init leaves
\* a container that exists with the one signalforge-app element as its only
\* content; without a container it throws 'App container not found' and
\* creates and mounts nothing.
InitRunsOnceStep ==
    /\ startup'.initCalls <= 1
    /\ (startup'.pc \in {"finished", "aborted"} /\ readyState' # "loading")
          => startup'.initCalls = 1
    /\ startup'.initCalls > 0 => startup'.defined
    /\ startup'.initCalls # startup.initCalls =>
          IF container'.inDocument
          THEN /\ container'.children = Mounted
               /\ app'.created /\ app'.connected
               /\ startup'.errors = startup.errors
          ELSE /\ "App container not found" \in startup'.errors
               /\ container'.children = container.children
               /\ ~app'.created /\ ~app'.connected

InitRunsOnce == [][InitRunsOnceStep]_vars

\* C21 happens: the module ran while the document was loading, and init ran
\* on DOMContentLoaded and mounted the application in place of the old
\* content of the container
InitRunsOnceHappens ==
    /\ startup.listener
    /\ startup.initCalls = 1
    /\ readyState = "interactive"
    /\ container.inDocument
    /\ container.children = Mounted
    /\ app.connected

\* C22: whenever the element has rendered, its main content shows the node
\* editor if and only if audioContextReady is true and currentView is not
\* 'welcome'; otherwise it shows the welcome screen, whose start button is
\* enabled if and only if audioContextReady is true.
MainContentFollowsState ==
    app.updated =>
        /\ (app.shown.screen = "node-editor")
              <=> (app.audioContextReady /\ app.currentView # "welcome")
        /\ app.shown.screen # "node-editor" =>
              /\ app.shown.screen = "welcome-screen"
              /\ (app.shown.startButton = "enabled") <=> app.audioContextReady

\* C22 happens: the audio context is ready, the current view is 'welcome',
\* and the welcome screen is shown with its start button enabled
MainContentFollowsStateHappens ==
    /\ app.updated
    /\ app.audioContextReady
    /\ app.currentView = "welcome"
    /\ app.shown = [screen |-> "welcome-screen", startButton |-> "enabled"]

\* C23: a delay time outside its range is clamped, not rejected: whenever
\* DelayLine.process was called with a delay below 0 or above the capacity
\* of the line, the index it read at is within 0..capacity-1 and the value
\* it returned is a sample stored in the buffer, not an undefined value.
DelayOutOfRangeClamped ==
    (dlCall.called /\ (dlCall.delayTime2 < 0 \/ dlCall.delayTime2 > 2 * size))
        => LET readIndex == ReadIndex(writeIndex, Floor(dlCall.delayTime2), size)
           IN  /\ readIndex \in 0 .. (size - 1)
               /\ dlCall.output = buffer[readIndex]

\* C24: in the circular buffer writeIndex is within 0..size-1 and every
\* write advances it by exactly one slot modulo size; for every integer
\* delay from 0 to size the index read at is within 0..size-1, and a call
\* with such a delay returns a sample stored in the buffer.
RingIndicesStep ==
    /\ writeIndex \in 0 .. (size - 1)
    /\ writeIndex' \in 0 .. (size - 1)
    /\ writeIndex' = (writeIndex + 1) % size
    /\ \A delay \in 0 .. size :
          ReadIndex(writeIndex', delay, size) \in 0 .. (size - 1)
    /\ (dlCall'.delayTime2 >= 0 /\ dlCall'.delayTime2 <= 2 * size)
          => LET readIndex == ReadIndex(writeIndex', Floor(dlCall'.delayTime2), size)
             IN  /\ readIndex \in 0 .. (size - 1)
                 /\ dlCall'.output = buffer'[readIndex]

RingIndicesInRange == [][RingIndicesStep]_vars

\* C24 happens: a line of capacity 3 has wrapped around (its last slot is
\* written, writeIndex is back at 0) and was read with delay 3
RingIndicesInRangeHappens ==
    /\ size = 3
    /\ writeIndex = 0
    /\ buffer[2] = 1
    /\ dlCall.called
    /\ dlCall.delayTime2 = 6
    /\ dlCall.output = buffer[0]

\* C26: when invocations of executeUserScript on one sandbox overlap, the
\* timeout of an invocation terminates only the worker created for that
\* invocation: a worker is terminated only if the timer of its own
\* invocation has fired. Each result is delivered to its own caller: the
\* promise of an invocation is resolved only after a message of its own
\* worker (which revokes its own blob URL).
TimeoutTerminatesOwnWorker ==
    \A i \in Inv :
        /\ workers[i] = "terminated" => timer[i] = "fired"
        /\ promise[i] = "resolved" => (url[i] = "revoked" /\ workers[i] # "none")

\* the five coefficients of the filter
Coefficients == <<filter.b0, filter.b1, filter.b2, filter.a1, filter.a2>>

\* C25: BiquadFilter.process never changes the five coefficients b0, b1, b2,
\* a1, a2: they change only in a parameter-setting call (setLowpass). A
\* process call changes only the history: x1 becomes the new input, x2 the
\* old x1, y1 the returned output and y2 the old y1.
ProcessKeepsCoefficientsStep ==
    /\ bqCall'.n # bqCall.n =>
          /\ bqCall'.op = "process"
          /\ Coefficients' = Coefficients
          /\ filter'.fs = filter.fs
          /\ filter'.x1 = bqCall'.input
          /\ filter'.x2 = filter.x1
          /\ filter'.y1 = bqCall'.output
          /\ filter'.y2 = filter.y1
    /\ Coefficients' # Coefficients => bqCall'.op = "setLowpass"

ProcessKeepsCoefficients == [][ProcessKeepsCoefficientsStep]_vars

\* C25 happens: a filter that passed a 1 through was set to the lowpass at
\* frequency 0 and then processed another 1: the output 2 is in y1, the old
\* y1 in y2, the inputs in x1 and x2
ProcessKeepsCoefficientsHappens ==
    /\ bqCall.op = "process"
    /\ bqCall.input = 1
    /\ bqCall.output = 2
    /\ Coefficients = <<0, 0, 0, -2, 1>>
    /\ <<filter.x1, filter.x2, filter.y1, filter.y2>> = <<1, 1, 2, 1>>

====
